---- MODULE Spec2Model ----
(***************************************************************************)
(* The Multiverse of chain-impl-mockchain (src/multiverse.rs): a cache of  *)
(* ledger states indexed by block id (states_by_hash) and by chain length  *)
(* (states_by_chain_length), pinned from outside by Ref handles, thinned   *)
(* by gc() and refilled from a block store by get_from_storage().          *)
(*                                                                         *)
(* An Arc<State> is modelled by a pointer <<id, generation>> into `heap`;  *)
(* the strong count of a pointer is the number of Retained table entries   *)
(* and caller-held Ref values that carry it.  A Weak keeps the allocation  *)
(* (the pointer) reserved but not the state.                               *)
(***************************************************************************)
EXTENDS Integers, Sequences, FiniteSets, Bags, TLC

VARIABLES
    states_by_hash,          \* HeaderId -> GcEntry:  [kind, ptr]
    states_by_chain_length,  \* ChainLength -> set of HeaderId
    heap,                    \* pointer -> Ledger state, for pointers with strong count > 0
    refs,                    \* bag of Ref values held by callers: [hash, state]
    last,                    \* the latest call and what it returned
    fresh_inserts            \* TRUE as long as every insert and add so far was
                             \* for an id the table did not hold, under the
                             \* chain length of the state it came with, the
                             \* one the store implies for the id

vars == <<states_by_hash, states_by_chain_length, heap, refs, last, fresh_inserts>>

(***************************************************************************)
(* Constants of the program and bounds of the model.                       *)
(***************************************************************************)
SUFFIX_TO_KEEP == 50

\* Chain length of the last block of the main chain held by the block store.
MaxLen == 106

\* Largest number of Ref values callers hold at the same time.
MaxRefs == 2

\* Number of blocks of the linear-chain scenario (the loop of test::multiverse).
MaxBlocks == 300

(***************************************************************************)
(* The block store: a main chain rooted at the zero hash, a fork block, a  *)
(* block whose parent the store does not know, a block whose body cannot   *)
(* be read, and a block the ledger rejects.                                *)
(***************************************************************************)
zero_hash == 0

MainIds == 1 .. (MaxLen + 1)

\* The id of the main-chain block at chain length len.
MainId(len) == len + 1

GenesisId == MainId(0)

\* A block forking off the main chain after the block at chain length 1.
ForkId == -1

\* A block whose parent, MissingId, the store does not hold.
OrphanId == -2

\* A block whose info the store returns and whose body it fails to read.
NoBodyId == -3

\* A block that Ledger::apply_block rejects.
BadId == -4

MissingId == -5

\* store.get_block_info(h) succeeds
HasBlockInfo(h) == h \in MainIds \cup {ForkId, OrphanId, NoBodyId, BadId}

\* store.get_block(h) succeeds
HasBlock(h) == h \in MainIds \cup {ForkId, OrphanId, BadId}

\* store.get_block_info(h).parent_id()
parent_id(h) ==
    IF h \in MainIds THEN h - 1
    ELSE IF h = OrphanId THEN MissingId
    ELSE MainId(1)

\* store.get_block_info(h).chain_length()
block_chain_length(h) == IF h \in MainIds THEN h - 1 ELSE 2

(***************************************************************************)
(* The ledger: a state is its chain length and a digest of the blocks      *)
(* applied so far, in the order they were applied.                         *)
(***************************************************************************)
NoState == [chain_length |-> -1, digest |-> 0]

chain_length(st) == st.chain_length

\* The digest after block h is applied to a state with digest d.
Mix(d, h) == (d * 31 + h) % 65521

\* Ledger::apply_block: the new state, or NoState when the block is rejected
apply_block(st, h) ==
    IF h = BadId THEN NoState
    ELSE [chain_length |-> st.chain_length + 1, digest |-> Mix(st.digest, h)]

\* The state of the genesis block.
GenesisState == [chain_length |-> 0, digest |-> GenesisId]

RECURSIVE ApplyMain(_, _, _)
\* The main-chain blocks at chain lengths from + 1 .. to applied to st.
ApplyMain(st, from, to) ==
    IF st = NoState \/ from >= to THEN st
    ELSE IF to = from + 1 THEN apply_block(st, MainId(to))
    ELSE ApplyMain(ApplyMain(st, from, (from + to) \div 2), (from + to) \div 2, to)

\* The states of the main chain, by chain length.
MainStates ==
    [len \in 0 .. (MaxLen + MaxBlocks) |-> ApplyMain(GenesisState, 0, len)]

\* The state of the main-chain block at chain length len: the blocks
\* genesis..len applied in order.
MainState(len) == MainStates[len]

\* The state of block h, as the caller of add computed it from the parent's.
ChainState(h) ==
    IF h \in MainIds THEN MainState(h - 1)
    ELSE apply_block(MainState(parent_id(h) - 1), h)

\* An nth_ancestor that returns the length itself.
nth_ancestor_self(len, n) == len

\* ChainLength::nth_ancestor: length - n, or -1 for None
nth_ancestor(len, n) == IF len >= n THEN len - n ELSE -1

\* ChainLength::increase
increase(len) == len + 1

(***************************************************************************)
(* Arc / Weak.                                                             *)
(***************************************************************************)
Retained(p) == [kind |-> "Retained", ptr |-> p]

Collectable(p) == [kind |-> "Collectable", ptr |-> p]

\* Ref::new
Ref(k, p) == [hash |-> k, state |-> p]

\* Pointers some caller-held Ref carries.
PinnedPtrs(rf) == {r.state : r \in BagToSet(rf)}

\* Pointers with a strong count above zero.
StrongPtrs(h, rf) ==
    {h[k].ptr : k \in {x \in DOMAIN h : h[x].kind = "Retained"}} \cup PinnedPtrs(rf)

\* Weak::strong_count() of the pointer p, as seen by the table alone
\* (the entry itself holds no strong reference any more).
strong_count(p, rf) ==
    LET holders == {r \in BagToSet(rf) : r.state = p}
    IN  IF holders = {} THEN 0 ELSE CopiesIn(CHOOSE r \in holders : TRUE, rf)

\* Arc::new: an allocation that no Arc or Weak refers to.
NewPtr(k, h, rf) ==
    LET used == {h[x].ptr : x \in DOMAIN h} \cup PinnedPtrs(rf)
        gen  == CHOOSE n \in 0 .. (Cardinality(used) + 1) :
                    /\ <<k, n>> \notin used
                    /\ \A m \in 0 .. (n - 1) : <<k, m>> \in used
    IN  <<k, gen>>

\* The function f on the keys S only.
Restrict(f, S) == [x \in S |-> f[x]] @@ <<>>

\* Drop of the states whose strong count reached zero.
Live(hp, h, rf) == Restrict(hp, (DOMAIN hp) \cap StrongPtrs(h, rf))

\* None of Option<Arc<State>>: no allocation has a generation below 0, so
\* it differs from every Arc, the Arc of the entry of zero_hash included.
NoPtr == <<zero_hash, -1>>

\* None of Option<Ref>: it differs from every Ref, since no Ref carries NoPtr.
NoRef == [hash |-> zero_hash, state |-> NoPtr]

(***************************************************************************)
(* Multiverse.  A multiverse value is [h, l, hp]: the two maps and the     *)
(* heap of the states they and the callers keep alive.                     *)
(***************************************************************************)
\* Multiverse::new
new == [h |-> <<>>, l |-> <<>>, hp |-> <<>>]

\* A get that upgrades no Weak.
get_retained_only(k, h, rf) ==
    IF k \notin DOMAIN h THEN NoPtr
    ELSE IF h[k].kind = "Retained" THEN h[k].ptr
    ELSE NoPtr

\* GcEntry::get through Multiverse::get: the Arc of k, or NoPtr for None
get(k, h, rf) ==
    IF k \notin DOMAIN h THEN NoPtr
    ELSE IF h[k].kind = "Retained" THEN h[k].ptr
    ELSE IF strong_count(h[k].ptr, rf) > 0 THEN h[k].ptr
    ELSE NoPtr

\* Multiverse::get_ref
get_ref(k, h, rf) ==
    IF get(k, h, rf) = NoPtr THEN NoRef ELSE Ref(k, get(k, h, rf))

\* Multiverse::nr_states
nr_states(h) == Cardinality(DOMAIN h)

\* An insert that stores a Weak of the new Arc.
insert_collectable(len, k, st, M, rf) ==
    LET p  == NewPtr(k, M.h, rf)
        l2 == (len :> ((IF len \in DOMAIN M.l THEN M.l[len] ELSE {}) \cup {k})) @@ M.l
        h2 == (k :> Collectable(p)) @@ M.h
        hp2 == (p :> st) @@ M.hp
    IN  [h |-> h2, l |-> l2, hp |-> hp2, ref |-> Ref(k, p)]

\* Multiverse::insert: the new maps and the returned Ref
insert(len, k, st, M, rf) ==
    LET p  == NewPtr(k, M.h, rf)
        l2 == (len :> ((IF len \in DOMAIN M.l THEN M.l[len] ELSE {}) \cup {k})) @@ M.l
        h2 == (k :> Retained(p)) @@ M.h
        hp2 == (p :> st) @@ M.hp
    IN  [h |-> h2, l |-> l2, hp |-> hp2, ref |-> Ref(k, p)]

\* An add that indexes an id the table already holds one length higher.
add_reindexing(k, st, M, rf) ==
    insert(IF k \in DOMAIN M.h THEN chain_length(st) + 1 ELSE chain_length(st),
           k, st, M, rf)

\* Multiverse::add
add(k, st, M, rf) == insert(chain_length(st), k, st, M, rf)

\* A collect that reports every entry as dead.
collect_ignoring_pins(e, rf) == TRUE

\* A collect that reads the strong count before it downgrades its own Arc.
collect_count_before_downgrade(e, rf) ==
    e.kind = "Collectable" /\ strong_count(e.ptr, rf) = 0

\* A collect that leaves entries that are already Collectable alone.
collect_retained_only(e, rf) ==
    e.kind = "Retained" /\ strong_count(e.ptr, rf) = 0

\* GcEntry::collect: TRUE when the entry, now weak, has no strong holder left
collect(e, rf) == strong_count(e.ptr, rf) = 0

Max(S) == CHOOSE x \in S : \A y \in S : y <= x

Min(S) == CHOOSE x \in S : \A y \in S : x <= y

\* A retain that removes the dead entries from the table and leaves their
\* ids in the bucket.
gc_retain_table_only(hashes, h, rf) ==
    LET gone == {k \in hashes : collect(h[k], rf)}
    IN  [hashes |-> hashes,
         h |-> [x \in (DOMAIN h) \ gone |->
                   IF x \in hashes THEN Collectable(h[x].ptr) ELSE h[x]] @@ <<>>]

\* A retain that collects the ids of the main chain only.
gc_retain_main_only(hashes, h, rf) ==
    LET gone == {k \in hashes : k > zero_hash /\ collect(h[k], rf)}
    IN  [hashes |-> hashes \ gone,
         h |-> [x \in (DOMAIN h) \ gone |->
                   IF x \in hashes THEN Collectable(h[x].ptr) ELSE h[x]] @@ <<>>]

\* The closure of hashes.retain in gc: the bucket and the table after it.
gc_retain(hashes, h, rf) ==
    LET gone == {k \in hashes : collect(h[k], rf)}
    IN  [hashes |-> hashes \ gone,
         h |-> [x \in (DOMAIN h) \ gone |->
                   IF x \in hashes THEN Collectable(h[x].ptr) ELSE h[x]] @@ <<>>]

\* A scan range that includes the threshold length.
in_scan_range_inclusive(c, scan_length, gc_threshold_length) ==
    scan_length <= c /\ c <= gc_threshold_length

\* The range scan_length..gc_threshold_length of the scan.
in_scan_range(c, scan_length, gc_threshold_length) ==
    scan_length <= c /\ c < gc_threshold_length

\* A cursor that stays on the bucket it has just kept.
next_to_keep_no_gap(len, longest_chain) == len

\* The next length to keep after the bucket at len was kept.
next_to_keep(len, longest_chain) == len + ((longest_chain - len) \div 2)

RECURSIVE gc_scan_keeping_empty(_, _, _, _, _, _, _, _)
\* A while loop that leaves a bucket it has emptied in the index.
gc_scan_keeping_empty(h, l, scan_length, to_keep, longest_chain, gc_threshold_length, rf, before) ==
    LET range == {c \in DOMAIN l : in_scan_range(c, scan_length, gc_threshold_length)}
    IN  IF range = {} THEN [h |-> h, l |-> l, panic |-> FALSE]
        ELSE
          LET len    == Min(range)
              hashes == l[len]
          IN  IF len >= to_keep
              THEN gc_scan_keeping_empty(h, l, increase(len),
                           next_to_keep(len, longest_chain),
                           longest_chain, gc_threshold_length, rf, before)
              ELSE IF ~(hashes \subseteq DOMAIN h)
              THEN
                LET seen == before \cap hashes \cap DOMAIN h
                    r    == gc_retain(seen, h, rf)
                IN  [h |-> r.h,
                     l |-> [l EXCEPT ![len] = hashes \ (seen \ r.hashes)],
                     panic |-> TRUE]
              ELSE
                LET r  == gc_retain(hashes, h, rf)
                    l2 == [l EXCEPT ![len] = r.hashes]
                IN  gc_scan_keeping_empty(r.h, l2, increase(len), to_keep,
                            longest_chain, gc_threshold_length, rf, before)

RECURSIVE gc_scan(_, _, _, _, _, _, _, _)
\* The while loop of gc.  hashes.retain visits the ids of a bucket in the
\* order of the HashSet, which differs from run to run: when the bucket holds
\* an id without a table entry, the ids of `before` are those the closure has
\* dealt with when it arrives at that id and panics.
gc_scan(h, l, scan_length, to_keep, longest_chain, gc_threshold_length, rf, before) ==
    LET range == {c \in DOMAIN l : in_scan_range(c, scan_length, gc_threshold_length)}
    IN  IF range = {} THEN [h |-> h, l |-> l, panic |-> FALSE]
        ELSE
          LET len    == Min(range)
              hashes == l[len]
          IN  IF len >= to_keep
              THEN gc_scan(h, l, increase(len),
                           next_to_keep(len, longest_chain),
                           longest_chain, gc_threshold_length, rf, before)
              ELSE IF ~(hashes \subseteq DOMAIN h)
              THEN
                LET seen == before \cap hashes \cap DOMAIN h
                    r    == gc_retain(seen, h, rf)
                IN  [h |-> r.h,
                     l |-> [l EXCEPT ![len] = hashes \ (seen \ r.hashes)],
                     panic |-> TRUE]
              ELSE
                LET r  == gc_retain(hashes, h, rf)
                    l2 == IF r.hashes # {}
                          THEN [l EXCEPT ![len] = r.hashes]
                          ELSE Restrict(l, (DOMAIN l) \ {len})
                IN  gc_scan(r.h, l2, increase(len), to_keep,
                            longest_chain, gc_threshold_length, rf, before)

\* A gc that scans every bucket, the tip's included, and keeps none.
gc_thin_all(M, rf, before) ==
    IF DOMAIN M.l = {} THEN [h |-> M.h, l |-> M.l, hp |-> M.hp, panic |-> FALSE]
    ELSE
      LET longest_chain == Max(DOMAIN M.l)
          gc_threshold_length == nth_ancestor(longest_chain, SUFFIX_TO_KEEP)
      IN  IF gc_threshold_length < 0
          THEN [h |-> M.h, l |-> M.l, hp |-> M.hp, panic |-> FALSE]
          ELSE
            LET r == gc_scan(M.h, M.l, 0, longest_chain + 1, longest_chain,
                             longest_chain + 1, rf, before)
            IN  [h |-> r.h, l |-> r.l, hp |-> Live(M.hp, r.h, rf), panic |-> r.panic]

\* A gc whose cursor starts at length 1.
gc_keep_from_one(M, rf, before) ==
    IF DOMAIN M.l = {} THEN [h |-> M.h, l |-> M.l, hp |-> M.hp, panic |-> FALSE]
    ELSE
      LET longest_chain == Max(DOMAIN M.l)
          gc_threshold_length == nth_ancestor(longest_chain, SUFFIX_TO_KEEP)
      IN  IF gc_threshold_length < 0
          THEN [h |-> M.h, l |-> M.l, hp |-> M.hp, panic |-> FALSE]
          ELSE
            LET r == gc_scan(M.h, M.l, 0, 1, longest_chain, gc_threshold_length, rf, before)
            IN  [h |-> r.h, l |-> r.l, hp |-> Live(M.hp, r.h, rf), panic |-> r.panic]

\* Multiverse::gc
gc(M, rf, before) ==
    IF DOMAIN M.l = {} THEN [h |-> M.h, l |-> M.l, hp |-> M.hp, panic |-> FALSE]
    ELSE
      LET longest_chain == Max(DOMAIN M.l)
          gc_threshold_length == nth_ancestor(longest_chain, SUFFIX_TO_KEEP)
      IN  IF gc_threshold_length < 0
          THEN [h |-> M.h, l |-> M.l, hp |-> M.hp, panic |-> FALSE]
          ELSE
            LET r == gc_scan(M.h, M.l, 0, 0, longest_chain, gc_threshold_length, rf, before)
            IN  [h |-> r.h, l |-> r.l, hp |-> Live(M.hp, r.h, rf), panic |-> r.panic]

RECURSIVE walk_no_sentinel(_, _, _, _)
\* An ancestor loop that asks the store for the zero hash like for any other.
walk_no_sentinel(cur_hash, blocks_to_apply, h, rf) ==
    IF get_ref(cur_hash, h, rf) # NoRef
    THEN [panic |-> "", state_ref |-> get_ref(cur_hash, h, rf),
          blocks_to_apply |-> blocks_to_apply, infos |-> Len(blocks_to_apply)]
    ELSE IF ~HasBlockInfo(cur_hash)
    THEN [panic |-> "panic: unwrap of get_block_info error",
          state_ref |-> NoRef, blocks_to_apply |-> blocks_to_apply,
          infos |-> Len(blocks_to_apply) + 1]
    ELSE walk_no_sentinel(parent_id(cur_hash), Append(blocks_to_apply, cur_hash), h, rf)

RECURSIVE walk(_, _, _, _)
\* The ancestor loop of get_from_storage: the seed Ref and the blocks to
\* apply, or the panic the loop ends with; infos counts its
\* store.get_block_info calls.
walk(cur_hash, blocks_to_apply, h, rf) ==
    IF cur_hash = zero_hash
    THEN [panic |-> "panic: don't know how to reconstruct initial chain state",
          state_ref |-> NoRef, blocks_to_apply |-> blocks_to_apply,
          infos |-> Len(blocks_to_apply)]
    ELSE IF get_ref(cur_hash, h, rf) # NoRef
    THEN [panic |-> "", state_ref |-> get_ref(cur_hash, h, rf),
          blocks_to_apply |-> blocks_to_apply, infos |-> Len(blocks_to_apply)]
    ELSE IF ~HasBlockInfo(cur_hash)
    THEN [panic |-> "panic: unwrap of get_block_info error",
          state_ref |-> NoRef, blocks_to_apply |-> blocks_to_apply,
          infos |-> Len(blocks_to_apply) + 1]
    ELSE walk(parent_id(cur_hash), Append(blocks_to_apply, cur_hash), h, rf)

RECURSIVE replay(_, _, _, _, _, _)
\* The for loop of get_from_storage over blocks_to_apply.iter().rev(),
\* at position i; calls counts the store.get_block calls made so far.
replay(blocks_to_apply, i, state_ref, M, rf, calls) ==
    IF i = 0
    THEN [h |-> M.h, l |-> M.l, hp |-> M.hp, panic |-> "",
          ref |-> state_ref, calls |-> calls]
    ELSE
      LET hash == blocks_to_apply[i]
      IN  IF ~HasBlock(hash)
          THEN [h |-> M.h, l |-> M.l, hp |-> M.hp,
                panic |-> "panic: unwrap of get_block error",
                ref |-> NoRef, calls |-> calls + 1]
          ELSE
            LET state == apply_block(M.hp[state_ref.state], hash)
            IN  IF state = NoState
                THEN [h |-> M.h, l |-> M.l, hp |-> M.hp,
                      panic |-> "panic: unwrap of apply_block error",
                      ref |-> NoRef, calls |-> calls + 1]
                ELSE
                  LET a == add(hash, state, M, rf)
                  IN  replay(blocks_to_apply, i - 1, a.ref,
                             [h |-> a.h, l |-> a.l, hp |-> a.hp], rf, calls + 1)

Reverse(s) == [i \in 1 .. Len(s) |-> s[Len(s) + 1 - i]]

\* A get_from_storage that replays blocks_to_apply.iter() without the rev().
get_from_storage_no_rev(k, M, rf) ==
    IF get_ref(k, M.h, rf) # NoRef
    THEN [h |-> M.h, l |-> M.l, hp |-> M.hp, panic |-> "",
          ref |-> get_ref(k, M.h, rf), calls |-> 0, infos |-> 0]
    ELSE
      LET w == walk(k, <<>>, M.h, rf)
      IN  IF w.panic # ""
          THEN [h |-> M.h, l |-> M.l, hp |-> M.hp, panic |-> w.panic,
                ref |-> NoRef, calls |-> 0, infos |-> w.infos]
          ELSE [infos |-> w.infos]
                   @@ replay(Reverse(w.blocks_to_apply), Len(w.blocks_to_apply),
                             w.state_ref, M, rf, 0)

\* Multiverse::get_from_storage
get_from_storage(k, M, rf) ==
    IF get_ref(k, M.h, rf) # NoRef
    THEN [h |-> M.h, l |-> M.l, hp |-> M.hp, panic |-> "",
          ref |-> get_ref(k, M.h, rf), calls |-> 0, infos |-> 0]
    ELSE
      LET w == walk(k, <<>>, M.h, rf)
      IN  IF w.panic # ""
          THEN [h |-> M.h, l |-> M.l, hp |-> M.hp, panic |-> w.panic,
                ref |-> NoRef, calls |-> 0, infos |-> w.infos]
          ELSE [infos |-> w.infos]
                   @@ replay(w.blocks_to_apply, Len(w.blocks_to_apply),
                             w.state_ref, M, rf, 0)

(***************************************************************************)
(* The state machine.                                                      *)
(***************************************************************************)
\* Blocks the caller adds itself, with the state it computed for them.
AddIds ==
    {GenesisId, ForkId, MainId(10), MainId(52), MainId(53), MainId(MaxLen - 2), MainId(MaxLen)}

\* Blocks whose Ref the caller of add keeps.
PinIds == {MainId(53)}

\* Blocks the caller asks get_from_storage for.
GetIds == {MainId(2), ForkId, OrphanId, NoBodyId, BadId}

Self == [h |-> states_by_hash, l |-> states_by_chain_length, hp |-> heap]

\* The record of a call: its argument, what it returned ("Ok", "Err", or the
\* message of the panic that ended it), the Ref it returned, the number of
\* store.get_block and of store.get_block_info calls it made, the ids it
\* removed from the table, those of them that were Collectable before the
\* call, and the chain length an insert was called with (-1 for other calls).
Called(op, k, ret, r, n) ==
    [op |-> op, hash |-> k, ret |-> ret, ref |-> r, calls |-> n, infos |-> 0,
     gone |-> {}, swept |-> {}, len |-> -1]

Panicked(c) == c.ret \notin {"Ok", "Err"}

\* What the caller does with a returned Ref: hold it, or drop it at once.
Hold(r, keep) == IF keep THEN refs (+) SetToBag({r}) ELSE refs

Init ==
    /\ states_by_hash = new.h
    /\ states_by_chain_length = new.l
    /\ heap = new.hp
    /\ refs = EmptyBag
    /\ last = Called("new", zero_hash, "Ok", NoRef, 0)
    /\ fresh_inserts = TRUE

\* The blocks the store has the info of.
StoreIds == MainIds \cup {ForkId, OrphanId, NoBodyId, BadId}

\* The chain lengths the store implies for the id k, a child being one
\* longer than its parent: the one it records for k, and one less than the
\* one it records for a child of k.  None for the zero hash, which the walk
\* of get_from_storage never takes a state of.
ChainLengths(k) ==
    IF k = zero_hash THEN {}
    ELSE {block_chain_length(c) : c \in {k} \cap StoreIds}
         \cup {block_chain_length(c) - 1 : c \in {x \in StoreIds : parent_id(x) = k}}

\* The insert is one the contract of add allows: the table does not hold
\* the id, the chain length is the one of the state, and the state is one of
\* the block k: it sits at the chain length the store implies for k.
FreshInsert(len, k, st) ==
    /\ k \notin DOMAIN states_by_hash
    /\ len = chain_length(st)
    /\ \A c \in ChainLengths(k) : len = c

\* multiverse.insert(len, k, st): any chain length, any id, any state; the
\* caller keeps the returned Ref or drops it at once
Insert(len, k, st, keep) ==
    /\ keep => BagCardinality(refs) < MaxRefs
    /\ LET a == insert(len, k, st, Self, refs)
       IN  /\ states_by_hash' = a.h
           /\ states_by_chain_length' = a.l
           /\ refs' = Hold(a.ref, keep)
           /\ heap' = Live(a.hp, a.h, refs')
           /\ last' = [Called("insert", k, "Ok", a.ref, 0) EXCEPT !.len = len]
           /\ fresh_inserts' = (fresh_inserts /\ FreshInsert(len, k, st))

\* multiverse.add(k, st): any id, any state; the caller keeps the returned
\* Ref or drops it at once
Add(k, st, keep) ==
    /\ keep => BagCardinality(refs) < MaxRefs
    /\ LET a == add(k, st, Self, refs)
       IN  /\ states_by_hash' = a.h
           /\ states_by_chain_length' = a.l
           /\ refs' = Hold(a.ref, keep)
           /\ heap' = Live(a.hp, a.h, refs')
           /\ last' = [Called("add", k, "Ok", a.ref, 0) EXCEPT !.len = chain_length(st)]
           /\ fresh_inserts' = (fresh_inserts /\ FreshInsert(chain_length(st), k, st))

\* The ids of the table that share a bucket with an id the table does not
\* hold or that are in more than one bucket: a gc that panics on a dangling
\* index entry may have dealt with any of them before.
Unordered(h, l) ==
    {k \in DOMAIN h :
        \E c \in DOMAIN l :
            /\ k \in l[c]
            /\ \/ ~(l[c] \subseteq DOMAIN h)
               \/ \E x \in l[c] : \E d \in (DOMAIN l) \ {c} : x \in l[d]}

\* multiverse.gc(), whatever the order in which retain visits a bucket
Gc ==
    \E before \in SUBSET Unordered(states_by_hash, states_by_chain_length) :
        LET g == gc(Self, refs, before)
        IN  /\ states_by_hash' = g.h
            /\ states_by_chain_length' = g.l
            /\ heap' = g.hp
            /\ refs' = refs
            /\ last' = [Called("gc", zero_hash,
                               IF g.panic THEN "panic: dangling state index entry" ELSE "Ok",
                               NoRef, 0)
                         EXCEPT !.gone = (DOMAIN states_by_hash) \ (DOMAIN g.h),
                                !.swept = {k \in (DOMAIN states_by_hash) \ (DOMAIN g.h) :
                                              states_by_hash[k].kind = "Collectable"}]
            /\ fresh_inserts' = fresh_inserts

\* multiverse.get_from_storage(k, &store)
GetFromStorage(k, keep) ==
    /\ keep => BagCardinality(refs) < MaxRefs
    /\ LET g == get_from_storage(k, Self, refs)
       IN  /\ states_by_hash' = g.h
           /\ states_by_chain_length' = g.l
           /\ refs' = IF g.panic = "" THEN Hold(g.ref, keep) ELSE refs
           /\ heap' = Live(g.hp, g.h, refs')
           /\ last' = [Called("get_from_storage", k,
                              IF g.panic = "" THEN "Ok" ELSE g.panic, g.ref, g.calls)
                        EXCEPT !.infos = g.infos]
           /\ fresh_inserts' = fresh_inserts

\* multiverse.get_ref(k), the Ref kept by the caller
GetRef(k) ==
    /\ BagCardinality(refs) < MaxRefs
    /\ get_ref(k, states_by_hash, refs) # NoRef
    /\ refs' = Hold(get_ref(k, states_by_hash, refs), TRUE)
    /\ last' = Called("get_ref", k, "Ok", get_ref(k, states_by_hash, refs), 0)
    /\ UNCHANGED <<states_by_hash, states_by_chain_length, heap, fresh_inserts>>

\* Ref::clone
CloneRef(r) ==
    /\ BagCardinality(refs) < MaxRefs
    /\ refs' = Hold(r, TRUE)
    /\ last' = Called("clone", zero_hash, "Ok", NoRef, 0)
    /\ UNCHANGED <<states_by_hash, states_by_chain_length, heap, fresh_inserts>>

\* drop of a Ref
DropRef(r) ==
    /\ refs' = refs (-) SetToBag({r})
    /\ heap' = Live(heap, states_by_hash, refs')
    /\ last' = Called("drop", zero_hash, "Ok", NoRef, 0)
    /\ UNCHANGED <<states_by_hash, states_by_chain_length, fresh_inserts>>

\* The caller of Spec honours the contract of add: it adds a block the table
\* does not hold, with the state it computed for it, and keeps the Ref of
\* the blocks of PinIds only.
Next ==
    \/ \E k \in AddIds \ DOMAIN states_by_hash :
          \E keep \in (IF k \in PinIds THEN BOOLEAN ELSE {FALSE}) :
              Add(k, ChainState(k), keep)
    \/ Gc
    \/ \E k \in GetIds, keep \in BOOLEAN : GetFromStorage(k, keep)
    \/ \E k \in PinIds : GetRef(k)
    \/ \E r \in BagToSet(refs) : CloneRef(r)
    \/ \E r \in BagToSet(refs) : DropRef(r)

Spec == Init /\ [][Next]_vars

(***************************************************************************)
(* Any caller: insert and add are called with whatever id, chain length    *)
(* and state, for ids the table holds too.                                 *)
(***************************************************************************)
\* The block the caller adds under two states and inserts under a chain
\* length that is not the one of its state: a block of the store whose
\* parent the store lacks.
AnyId == OrphanId

\* The state of length 2 that applying AnyId to a state of its parent gives.
AnyState == apply_block(MainState(1), AnyId)

\* What the caller adds: a block of the main chain with its state, the
\* state of the block at length 70 under the zero hash, under the id of
\* the parent of AnyId a state of the length that parent has and one of
\* another length, and under AnyId its state and one of another length.
AnyAdds ==
    {<<MainId(2), MainState(2)>>, <<zero_hash, MainState(70)>>,
     <<MissingId, MainState(1)>>, <<MissingId, MainState(7)>>,
     <<AnyId, AnyState>>, <<AnyId, MainState(7)>>}

\* What the caller inserts: a chain length, an id and a state; AnyId under
\* a chain length that is not the one of its state.
AnyInserts == {<<7, AnyId, AnyState>>}

\* Ids the caller asks get_from_storage for: the zero hash, which it adds
\* too, and AnyId, whose parent path leaves the store at an id it adds.
AnyGetIds == {zero_hash, AnyId}

\* The ids whose Ref the caller keeps: the block a replay leads to and the
\* parent it is seeded on.
AnyPinIds == {AnyId, MissingId}

\* The caller keeps one Ref at a time.
AnyKeep(k) == IF k \in AnyPinIds /\ refs = EmptyBag THEN BOOLEAN ELSE {FALSE}

AnyNext ==
    \/ \E i \in AnyInserts : \E keep \in AnyKeep(i[2]) : Insert(i[1], i[2], i[3], keep)
    \/ \E a \in AnyAdds : \E keep \in AnyKeep(a[1]) : Add(a[1], a[2], keep)
    \/ Gc
    \/ \E k \in AnyGetIds : \E keep \in AnyKeep(k) : GetFromStorage(k, keep)
    \/ refs = EmptyBag /\ GetRef(AnyId)
    \/ \E r \in BagToSet(refs) : DropRef(r)

SpecAny == Init /\ [][AnyNext]_vars

(***************************************************************************)
(* The linear chain of test::multiverse: genesis is added and its Ref kept *)
(* in _root; then block after block is added, its Ref replacing the one    *)
(* held in _ref, and gc() is called after each add.                        *)
(***************************************************************************)
Tip(l) == Max(DOMAIN l)

LinAddGenesis ==
    /\ DOMAIN states_by_hash = {}
    /\ LET a == add(GenesisId, MainState(0), Self, refs)
       IN  /\ states_by_hash' = a.h
           /\ states_by_chain_length' = a.l
           /\ refs' = Hold(a.ref, TRUE)
           /\ heap' = Live(a.hp, a.h, refs')
           /\ last' = Called("add", GenesisId, "Ok", a.ref, 0)
           /\ fresh_inserts' = fresh_inserts

LinAdd ==
    /\ DOMAIN states_by_hash # {}
    /\ \/ last.op = "gc"
       \/ last.op = "add" /\ last.hash = GenesisId
    /\ Tip(states_by_chain_length) < MaxBlocks
    /\ LET i == Tip(states_by_chain_length) + 1
           a == add(MainId(i), MainState(i), Self, refs)
           _ref == {r \in BagToSet(refs) : r.hash # GenesisId}
       IN  /\ states_by_hash' = a.h
           /\ states_by_chain_length' = a.l
           /\ refs' = (refs (-) SetToBag(_ref)) (+) SetToBag({a.ref})
           /\ heap' = Live(a.hp, a.h, refs')
           /\ last' = Called("add", MainId(i), "Ok", a.ref, 0)
           /\ fresh_inserts' = fresh_inserts

LinGc ==
    /\ last.op = "add"
    /\ last.hash # GenesisId
    /\ Gc

LinNext == LinAddGenesis \/ LinAdd \/ LinGc

SpecLinear == Init /\ [][LinNext]_vars

(***************************************************************************)
(* The fork scenario: the main chain is added from genesis up to length    *)
(* ForkMainLen, no Ref kept; a fork that left the main chain after length  *)
(* ForkPoint has its tip, at length ForkTipLen, added with no Ref kept;    *)
(* gc() is called; then the main chain goes on, gc() called after each add.*)
(***************************************************************************)
ForkMainLen == 100

ForkPoint == 60

ForkTipLen == 65

\* Length up to which the main chain goes on after the fork scenario.
MaxForkLen == 140

\* The tip block of the fork.
ForkTipId == -6

RECURSIVE ApplyFork(_, _)
\* The n fork blocks that end with ForkTipId (ids ForkTipId - n + 1 ..
\* ForkTipId) applied to st.
ApplyFork(st, n) ==
    IF n = 0 THEN st
    ELSE apply_block(ApplyFork(st, n - 1), ForkTipId - (ForkTipLen - ForkPoint) + n)

\* The state of the fork's tip.
ForkTipState == ApplyFork(MainState(ForkPoint), ForkTipLen - ForkPoint)

\* The main chain is added block after block.
ForkAddMain ==
    /\ last.op \in {"new", "add"}
    /\ ForkTipId \notin DOMAIN states_by_hash
    /\ LET i == IF DOMAIN states_by_chain_length = {} THEN 0
                ELSE Tip(states_by_chain_length) + 1
           a == add(MainId(i), MainState(i), Self, refs)
       IN  /\ i <= ForkMainLen
           /\ states_by_hash' = a.h
           /\ states_by_chain_length' = a.l
           /\ refs' = Hold(a.ref, FALSE)
           /\ heap' = Live(a.hp, a.h, refs')
           /\ last' = Called("add", MainId(i), "Ok", a.ref, 0)
           /\ fresh_inserts' = fresh_inserts

\* The tip of the fork is added, its Ref dropped at once.
ForkAddTip ==
    /\ last.op = "add"
    /\ last.hash = MainId(ForkMainLen)
    /\ LET a == add(ForkTipId, ForkTipState, Self, refs)
       IN  /\ states_by_hash' = a.h
           /\ states_by_chain_length' = a.l
           /\ refs' = Hold(a.ref, FALSE)
           /\ heap' = Live(a.hp, a.h, refs')
           /\ last' = Called("add", ForkTipId, "Ok", a.ref, 0)
           /\ fresh_inserts' = fresh_inserts

\* gc() after the add of the fork's tip and after each later add.
ForkGc ==
    /\ last.op = "add"
    /\ \/ last.hash = ForkTipId
       \/ last.hash > MainId(ForkMainLen)
    /\ Gc

\* The main chain goes on after the gc.
ForkExtend ==
    /\ last.op = "gc"
    /\ Tip(states_by_chain_length) < MaxForkLen
    /\ LET i == Tip(states_by_chain_length) + 1
           a == add(MainId(i), MainState(i), Self, refs)
       IN  /\ states_by_hash' = a.h
           /\ states_by_chain_length' = a.l
           /\ refs' = Hold(a.ref, FALSE)
           /\ heap' = Live(a.hp, a.h, refs')
           /\ last' = Called("add", MainId(i), "Ok", a.ref, 0)
           /\ fresh_inserts' = fresh_inserts

ForkNext == ForkAddMain \/ ForkAddTip \/ ForkGc \/ ForkExtend

SpecFork == Init /\ [][ForkNext]_vars

(***************************************************************************)
(* The retention schedule of gc, read off the length index alone.          *)
(***************************************************************************)
Threshold(l) == nth_ancestor(Tip(l), SUFFIX_TO_KEEP)

RECURSIVE Schedule(_, _, _, _)
\* The lengths among lens, taken in ascending order, that reach the cursor
\* next_keep; each of them moves the cursor half way to the tip.
Schedule(lens, next_keep, tip, kept) ==
    IF lens = {} THEN kept
    ELSE LET L == Min(lens)
         IN  IF L >= next_keep
             THEN Schedule(lens \ {L}, L + ((tip - L) \div 2), tip, kept \cup {L})
             ELSE Schedule(lens \ {L}, next_keep, tip, kept)

\* The lengths whose buckets gc leaves alone.
KeptLengths(l) ==
    IF DOMAIN l = {} \/ Threshold(l) < 0 THEN DOMAIN l
    ELSE {c \in DOMAIN l : c >= Threshold(l)}
             \cup Schedule({c \in DOMAIN l : c < Threshold(l)}, 0, Tip(l), {})

\* The lengths whose buckets gc thins.
GapLengths(l) == (DOMAIN l) \ KeptLengths(l)

\* The lengths under which the id k is indexed.
LengthsOf(k, l) == {c \in DOMAIN l : k \in l[c]}

\* Some bucket that holds the id k is one gc thins: retain deals with k
\* there, whatever other buckets hold k too.
InGap(k) ==
    LengthsOf(k, states_by_chain_length) \cap GapLengths(states_by_chain_length) # {}

Dead(k) ==
    /\ states_by_hash[k].kind = "Collectable"
    /\ strong_count(states_by_hash[k].ptr, refs) = 0

\* Collectable entries held by exactly one Ref.
SolePinned ==
    {k \in DOMAIN states_by_hash :
        /\ states_by_hash[k].kind = "Collectable"
        /\ strong_count(states_by_hash[k].ptr, refs) = 1}

RefsOf(D) == SetToBag({Ref(k, states_by_hash[k].ptr) : k \in D})

RECURSIVE FloorLog2(_)
\* floor(log2(i)) for i >= 1
FloorLog2(i) == IF i < 2 THEN 0 ELSE 1 + FloorLog2(i \div 2)

\* The largest d for which ((2^m - d) as f32).log2() is m: below 2^24 the
\* cast is exact and log2, rounded to the 2^-19 spacing of f32 between 16
\* and 32, is m when m - log2(2^m - d) < 2^-20, which is d < ln(2) * 2^(m-20);
\* from 2^24 on the cast rounds to a multiple of 2^(m-24) first (ties to
\* even), of which the 11 next to 2^m have a log2 that rounds to m.
F32Slack(m) ==
    IF m < 21 THEN 0
    ELSE IF m <= 24 THEN (693147 * 2^(m - 20)) \div 1000000
    ELSE 23 * 2^(m - 25) - 1

\* ((i as f32).log2()) as usize, for 1 <= i < 2^31
Log2(i) ==
    LET n == FloorLog2(i)
        d == 2^n - (i - 2^n)
    IN  IF d <= F32Slack(n + 1) THEN n + 1 ELSE n

(***************************************************************************)
(* Claims.                                                                 *)
(***************************************************************************)
\* C1 as stated: index coherence after any sequence of calls.  Every id of
\* the state table is in the bucket of its state's chain length, every id of
\* a bucket has a table entry, and gc never panics on a dangling index entry.
C1_IndexCoherence ==
    /\ \A k \in DOMAIN states_by_hash :
          /\ LengthsOf(k, states_by_chain_length) # {}
          /\ states_by_hash[k].ptr \in DOMAIN heap =>
                LengthsOf(k, states_by_chain_length)
                    = {chain_length(heap[states_by_hash[k].ptr])}
    /\ \A c \in DOMAIN states_by_chain_length :
          states_by_chain_length[c] \subseteq DOMAIN states_by_hash
    /\ last.ret # "panic: dangling state index entry"

\* C1 as amended: the index is coherent, and gc does not panic, as long as
\* every insert and add was for an id the table did not hold at that time,
\* under the chain length of the state it came with, which is the chain
\* length the store implies for the id: the one it records for the block,
\* and one less than the one it records for a child of it.
C1_CoherentWhileFresh == fresh_inserts => C1_IndexCoherence

\* With fresh inserts only, a gc has removed entries and left as Collectable
\* the pinned entry of AnyId, which a get_from_storage had added anew from
\* the state the caller added under the id of its parent (its Arc is the
\* second allocation for the id).
C1_Witness ==
    /\ fresh_inserts
    /\ last.op = "gc"
    /\ last.ret = "Ok"
    /\ last.gone # {}
    /\ AnyId \in DOMAIN states_by_hash
    /\ states_by_hash[AnyId].kind = "Collectable"
    /\ states_by_hash[AnyId].ptr[2] >= 1
    /\ \E r \in BagToSet(refs) : r.state = states_by_hash[AnyId].ptr
    /\ MissingId \in DOMAIN states_by_hash

\* C2: pin safety.  As long as a Ref to an id is held, get(id) returns the
\* very Arc the Ref carries, and its state is the one that was added.
C2_PinSafety ==
    \A r \in BagToSet(refs) :
        /\ get(r.hash, states_by_hash, refs) = r.state
        /\ r.state \in DOMAIN heap
        /\ heap[r.state] = ChainState(r.hash)

\* A gc has removed entries while a Ref held a demoted entry.
C2_Witness ==
    /\ last.op = "gc"
    /\ last.gone # {}
    /\ \E r \in BagToSet(refs) : states_by_hash[r.hash].kind = "Collectable"

\* C3 as stated: no Collectable entry without a live Ref survives a gc.
C3_NoDeadEntryAfterGc ==
    last.op = "gc" => \A k \in DOMAIN states_by_hash : ~Dead(k)

\* C3 as amended: a gc removes, from the table and from the index, every
\* Collectable entry without a live Ref whose bucket the schedule thins.
C3_DeadEntryInGapReclaimed ==
    [][last'.op = "gc" =>
          \A k \in DOMAIN states_by_hash :
              (Dead(k) /\ InGap(k)) =>
                  /\ k \notin DOMAIN states_by_hash'
                  /\ LengthsOf(k, states_by_chain_length') = {}]_vars

\* A gc has removed an entry that an earlier gc had demoted.
C3_Witness ==
    /\ last.op = "gc"
    /\ last.swept # {}

\* C4 as stated: right after a gc, dropping the only Ref of any m Collectable
\* entries and calling gc again lowers nr_states() by m.
C4_ReclaimAccounting ==
    last.op = "gc" =>
        \A D \in SUBSET SolePinned :
            nr_states(gc(Self, refs (-) RefsOf(D), {}).h)
                = nr_states(states_by_hash) - Cardinality(D)

\* C4 as amended: the same for Collectable entries in buckets the schedule
\* thins.
C4_ReclaimAccountingInGap ==
    last.op = "gc" =>
        \A D \in SUBSET {k \in SolePinned : InGap(k)} :
            nr_states(gc(Self, refs (-) RefsOf(D), {}).h)
                = nr_states(states_by_hash) - Cardinality(D)

\* After a gc two Collectable entries in thinned buckets are held by one Ref each.
C4_Witness ==
    /\ last.op = "gc"
    /\ Cardinality({k \in SolePinned : InGap(k)}) >= 2

\* C5: on the linear chain, after the gc that follows the add of block i,
\* nr_states() <= SUFFIX_TO_KEEP + floor(log2(i)), and the assertion of the
\* test, which takes the logarithm in f32, holds as well.
C5_LinearChainBound ==
    (last.op = "gc" /\ DOMAIN states_by_chain_length # {}) =>
        /\ nr_states(states_by_hash)
              <= SUFFIX_TO_KEEP + FloorLog2(Tip(states_by_chain_length))
        /\ nr_states(states_by_hash)
              <= SUFFIX_TO_KEEP + Log2(Tip(states_by_chain_length))

\* The chain has passed length 256 and the gc after the add removed a state.
C5_Witness ==
    /\ last.op = "gc"
    /\ last.gone # {}
    /\ Tip(states_by_chain_length) >= 256

(***************************************************************************)
(* The parent path of a block, read off the store alone.                   *)
(***************************************************************************)
RECURSIVE Ancestry(_)
\* The ids the loop of get_from_storage looks up from cur_hash on: cur_hash,
\* its parent, its grandparent, ... up to the block whose parent is the zero
\* hash, or up to the first block the store has no info for.  The loop does
\* not look the zero hash up.
Ancestry(cur_hash) ==
    IF cur_hash = zero_hash THEN <<>>
    ELSE IF ~HasBlockInfo(cur_hash) THEN <<cur_hash>>
    ELSE <<cur_hash>> \o Ancestry(parent_id(cur_hash))

\* The ids get_from_storage(k) looks up: k itself first, whatever it is (the
\* get_ref before the loop), then its ancestors as the loop walks them.
Lineage(k) == IF k = zero_hash THEN <<zero_hash>> ELSE Ancestry(k)

Obtainable(k) == get_ref(k, states_by_hash, refs) # NoRef

\* Positions of Lineage(k) that hold a block whose state get_ref returns.
Seeds(k) == {i \in DOMAIN Lineage(k) : Obtainable(Lineage(k)[i])}

\* The blocks of the path from k (inclusive) to its nearest obtainable
\* ancestor (exclusive), nearest to k first.
ToReplay(k) == SubSeq(Lineage(k), 1, Min(Seeds(k)) - 1)

\* An ancestor of k (or k) is obtainable and the store returns, and the
\* ledger accepts, every block between it and k.
Reconstructible(k) ==
    /\ Seeds(k) # {}
    /\ \A j \in DOMAIN ToReplay(k) :
          /\ HasBlock(ToReplay(k)[j])
          /\ apply_block(GenesisState, ToReplay(k)[j]) # NoState

\* The walk from k arrives at the zero hash: no id of the path is
\* obtainable and the store has the info of each block the loop asks for
\* (it asks for none when k is the zero hash).
ReachesZero(k) ==
    /\ Seeds(k) = {}
    /\ \A i \in DOMAIN Lineage(k) :
          Lineage(k)[i] # zero_hash => HasBlockInfo(Lineage(k)[i])

\* The walk from k arrives at a block the store has no info for.
InfoFails(k) ==
    /\ Seeds(k) = {}
    /\ \E i \in DOMAIN Lineage(k) :
          Lineage(k)[i] # zero_hash /\ ~HasBlockInfo(Lineage(k)[i])

\* The replay towards k arrives, before any rejected block, at a block whose
\* body the store fails to return.
BlockFails(k) ==
    /\ Seeds(k) # {}
    /\ \E j \in DOMAIN ToReplay(k) :
          /\ ~HasBlock(ToReplay(k)[j])
          /\ \A i \in DOMAIN ToReplay(k) :
                i > j => /\ HasBlock(ToReplay(k)[i])
                         /\ apply_block(GenesisState, ToReplay(k)[i]) # NoState

\* C6: gc is idempotent.  A gc() that directly follows a gc(), with no call
\* and no Ref created or dropped in between, changes neither the state table
\* (ids and variants) nor the length index.
C6_GcIdempotent ==
    [][(last.op = "gc" /\ last'.op = "gc") =>
          /\ states_by_hash' = states_by_hash
          /\ states_by_chain_length' = states_by_chain_length
          /\ nr_states(states_by_hash') = nr_states(states_by_hash)]_vars

\* A gc has found nothing to remove in a table that holds a pinned
\* Collectable entry in a thinned bucket.
C6_Witness ==
    /\ last.op = "gc"
    /\ last.gone = {}
    /\ \E k \in SolePinned : InGap(k)

SuffixLengths(l) ==
    {c \in DOMAIN l : c >= Tip(l) - SUFFIX_TO_KEEP}

\* C7: keep-suffix.  Every entry at a length >= tip - SUFFIX_TO_KEEP is
\* Retained in every state, and gc leaves those buckets and their entries
\* as they are.
C7_KeepSuffix ==
    /\ [](\A c \in SuffixLengths(states_by_chain_length) :
             \A k \in states_by_chain_length[c] :
                 /\ k \in DOMAIN states_by_hash
                 /\ states_by_hash[k].kind = "Retained")
    /\ [][last'.op = "gc" =>
             \A c \in SuffixLengths(states_by_chain_length) :
                 /\ c \in DOMAIN states_by_chain_length'
                 /\ states_by_chain_length'[c] = states_by_chain_length[c]
                 /\ \A k \in states_by_chain_length[c] :
                       /\ k \in DOMAIN states_by_hash'
                       /\ states_by_hash'[k] = states_by_hash[k]]_vars

\* A gc has removed entries below the threshold and the bucket at the
\* threshold length is still there.
C7_Witness ==
    /\ last.op = "gc"
    /\ last.gone # {}
    /\ Threshold(states_by_chain_length) \in DOMAIN states_by_chain_length

\* C8: reconstruction correctness.  When an ancestor of k (or k) is obtainable
\* and the store holds the blocks in between, get_from_storage(k) returns a
\* Ref with id k whose state has the chain length the store records for k
\* and is the state of applying genesis..k in order; it is the state the
\* table now holds for k.
C8_ReconstructionCorrect ==
    [][(last'.op = "get_from_storage" /\ Reconstructible(last'.hash)) =>
          /\ last'.ret = "Ok"
          /\ last'.ref.hash = last'.hash
          /\ last'.ref.state \in DOMAIN heap'
          /\ chain_length(heap'[last'.ref.state]) = block_chain_length(last'.hash)
          /\ heap'[last'.ref.state] = ChainState(last'.hash)
          /\ get(last'.hash, states_by_hash', refs') = last'.ref.state]_vars

\* A get_from_storage has rebuilt the main-chain block at length 2 from two
\* blocks, in a table that holds the fork block as a Collectable entry.
C8_Witness ==
    /\ last.op = "get_from_storage"
    /\ last.ret = "Ok"
    /\ last.hash = MainId(2)
    /\ last.calls = 2
    /\ ForkId \in DOMAIN states_by_hash
    /\ states_by_hash[ForkId].kind = "Collectable"

\* C9 as stated: when the walk reaches the zero hash, get_from_storage
\* returns an error to its caller and leaves the table and the index alone.
C9_ErrorReturned ==
    [][(last'.op = "get_from_storage" /\ ReachesZero(last'.hash)) =>
          /\ last'.ret = "Err"
          /\ states_by_hash' = states_by_hash
          /\ states_by_chain_length' = states_by_chain_length]_vars

\* C9 as amended: when the walk reaches the zero hash, get_from_storage
\* panics ("don't know how to reconstruct initial chain state"), returning
\* nothing, and leaves the table and the index alone.
C9_PanicsUnchanged ==
    [][(last'.op = "get_from_storage" /\ ReachesZero(last'.hash)) =>
          /\ last'.ret = "panic: don't know how to reconstruct initial chain state"
          /\ last'.ref = NoRef
          /\ states_by_hash' = states_by_hash
          /\ states_by_chain_length' = states_by_chain_length]_vars

\* A get_from_storage has walked to the zero hash in a multiverse that holds
\* states, none of them on the path.
C9_Witness ==
    /\ last.op = "get_from_storage"
    /\ Panicked(last)
    /\ ReachesZero(last.hash)
    /\ DOMAIN states_by_hash # {}

\* C10: when store.get_block_info fails during the walk or store.get_block
\* fails during the replay, get_from_storage returns the error to its
\* caller, and the indices are coherent afterwards.
C10_StoreErrorReturned ==
    [][(last'.op = "get_from_storage"
            /\ (InfoFails(last'.hash) \/ BlockFails(last'.hash))) =>
          /\ last'.ret = "Err"
          /\ C1_IndexCoherence']_vars

\* The replay towards k arrives, before any block the store fails to return,
\* at a block the ledger rejects: the positions of ToReplay(k) that hold it.
RejectedAt(k) ==
    IF Seeds(k) = {} THEN {}
    ELSE {j \in DOMAIN ToReplay(k) :
            /\ HasBlock(ToReplay(k)[j])
            /\ apply_block(GenesisState, ToReplay(k)[j]) = NoState
            /\ \A i \in DOMAIN ToReplay(k) :
                  i > j => /\ HasBlock(ToReplay(k)[i])
                           /\ apply_block(GenesisState, ToReplay(k)[i]) # NoState}

\* C11: when apply_block rejects a block of the replay, get_from_storage
\* reports the failure to its caller as an error (StateTransitionFailed), the
\* blocks replayed before the rejected one are Retained entries of the table
\* and of the index, and the rejected block and the blocks after it are not
\* added.
C11_TransitionFailureReported ==
    [][(last'.op = "get_from_storage" /\ RejectedAt(last'.hash) # {}) =>
          LET path == ToReplay(last'.hash)
              j    == CHOOSE x \in RejectedAt(last'.hash) : TRUE
          IN  /\ last'.ret = "Err"
              /\ \A i \in DOMAIN path :
                    i > j => /\ path[i] \in DOMAIN states_by_hash'
                             /\ states_by_hash'[path[i]].kind = "Retained"
                             /\ LengthsOf(path[i], states_by_chain_length') # {}
              /\ \A i \in DOMAIN path :
                    (i <= j /\ path[i] \notin DOMAIN states_by_hash) =>
                        /\ path[i] \notin DOMAIN states_by_hash'
                        /\ LengthsOf(path[i], states_by_chain_length') = {}]_vars

\* C12 as stated: after any sequence of calls, no block id is a member of
\* two buckets of the length index.
C12_OneLengthPerId ==
    \A c1 \in DOMAIN states_by_chain_length :
        \A c2 \in DOMAIN states_by_chain_length :
            c1 # c2 => states_by_chain_length[c1] \cap states_by_chain_length[c2] = {}

\* C12 as amended: no block id is a member of two buckets as long as every
\* insert and add was for an id the table did not hold at that time, under
\* the chain length of the state it came with, which is the chain length
\* the store implies for the id: the one it records for the block, and one
\* less than the one it records for a child of it.
C12_OneLengthWhileFresh == fresh_inserts => C12_OneLengthPerId

\* With fresh inserts only, a get_from_storage has added anew an id that the
\* table still held (as a Collectable entry without a Ref), from the state
\* the caller added under the id of its parent, which is no block of the
\* store: its Arc is the second allocation for that id, and the id is in
\* the one bucket it was in.
C12_Witness ==
    /\ fresh_inserts
    /\ last.op = "get_from_storage"
    /\ last.ret = "Ok"
    /\ last.hash = AnyId
    /\ last.calls = 1
    /\ last.ref.state[2] >= 1
    /\ LengthsOf(last.hash, states_by_chain_length) = {block_chain_length(AnyId)}
    /\ MissingId \in DOMAIN states_by_hash
    /\ LengthsOf(MissingId, states_by_chain_length) = {block_chain_length(AnyId) - 1}

\* The ids the table holds at a length >= tip - SUFFIX_TO_KEEP.
NearTip ==
    UNION {states_by_chain_length[c] : c \in SuffixLengths(states_by_chain_length)}

\* C13: fast path near the tip.  get_from_storage for an id held at a length
\* >= tip - SUFFIX_TO_KEEP returns the Arc of the table entry, calls neither
\* store.get_block nor store.get_block_info, and leaves the table and the
\* index as they are.
C13_FastPathNearTip ==
    [][(last'.op = "get_from_storage"
            /\ DOMAIN states_by_chain_length # {}
            /\ last'.hash \in NearTip) =>
          /\ last'.ret = "Ok"
          /\ last'.ref = Ref(last'.hash, states_by_hash[last'.hash].ptr)
          /\ last'.ref.state \in DOMAIN heap
          /\ last'.calls = 0
          /\ last'.infos = 0
          /\ states_by_hash' = states_by_hash
          /\ states_by_chain_length' = states_by_chain_length]_vars

\* A get_from_storage has hit the block at length 2 = tip - SUFFIX_TO_KEEP,
\* after a gc took away the block at length 1 it had been built on, and no
\* Ref is held.
C13_Witness ==
    /\ last.op = "get_from_storage"
    /\ last.ret = "Ok"
    /\ last.calls = 0
    /\ last.hash = MainId(2)
    /\ Tip(states_by_chain_length) = SUFFIX_TO_KEEP + 2
    /\ MainId(1) \notin DOMAIN states_by_hash
    /\ refs = EmptyBag

\* Every block id of the store, and the one the store does not hold.
AllIds == MainIds \cup {ForkId, OrphanId, NoBodyId, BadId, MissingId}

\* Some caller holds a Ref to the state of the table entry of k.
Pinned(k) ==
    /\ k \in DOMAIN states_by_hash
    /\ \E r \in BagToSet(refs) : r.state = states_by_hash[k].ptr

\* C14: get(id) and get_ref(id) return a state exactly when the table has an
\* entry for id that is Retained, or Collectable with a Ref to id still held;
\* the state returned is alive and is the one the entry refers to.  For an
\* absent id and for a Collectable entry whose last Ref was dropped, which
\* nr_states() still counts, they return None.
C14_GetIffRetainedOrPinned ==
    \A k \in AllIds :
        LET found == /\ k \in DOMAIN states_by_hash
                     /\ \/ states_by_hash[k].kind = "Retained"
                        \/ Pinned(k)
        IN  /\ found => /\ get(k, states_by_hash, refs) = states_by_hash[k].ptr
                        /\ get(k, states_by_hash, refs) \in DOMAIN heap
                        /\ get_ref(k, states_by_hash, refs)
                              = Ref(k, states_by_hash[k].ptr)
            /\ ~found => /\ get(k, states_by_hash, refs) = NoPtr
                         /\ get_ref(k, states_by_hash, refs) = NoRef
            /\ (k \in DOMAIN states_by_hash /\ ~found) =>
                  /\ states_by_hash[k].ptr \notin DOMAIN heap
                  /\ nr_states(states_by_hash)
                        > Cardinality({x \in DOMAIN states_by_hash :
                                          get(x, states_by_hash, refs) # NoPtr})

\* A get_ref has returned the state of a Collectable entry while the table
\* held another Collectable entry whose last Ref had been dropped.
C14_Witness ==
    /\ last.op = "get_ref"
    /\ states_by_hash[last.hash].kind = "Collectable"
    /\ \E k \in DOMAIN states_by_hash : Dead(k)

\* C15: add(id, state) for an id the table does not hold installs a Retained
\* entry for id, puts id into the bucket of state.chain_length(), returns a
\* Ref to that state, raises nr_states() by 1, leaves every other entry and
\* every other bucket as it is, and does not fail.
C15_AddFrame ==
    [][(last'.op = "add" /\ last'.hash \notin DOMAIN states_by_hash) =>
          LET k   == last'.hash
              len == chain_length(ChainState(k))
              old == IF len \in DOMAIN states_by_chain_length
                     THEN states_by_chain_length[len] ELSE {}
          IN  /\ last'.ret = "Ok"
              /\ last'.ref.hash = k
              /\ DOMAIN states_by_hash' = DOMAIN states_by_hash \cup {k}
              /\ states_by_hash'[k] = Retained(last'.ref.state)
              /\ last'.ref.state \in DOMAIN heap'
              /\ heap'[last'.ref.state] = ChainState(k)
              /\ nr_states(states_by_hash') = nr_states(states_by_hash) + 1
              /\ \A x \in DOMAIN states_by_hash :
                    states_by_hash'[x] = states_by_hash[x]
              /\ DOMAIN states_by_chain_length' = DOMAIN states_by_chain_length \cup {len}
              /\ states_by_chain_length'[len] = old \cup {k}
              /\ \A c \in DOMAIN states_by_chain_length :
                    c # len => states_by_chain_length'[c] = states_by_chain_length[c]]_vars

\* An add has put the fork block into the bucket that held the main-chain
\* block of its length, in a table with a Collectable entry, and the caller
\* dropped the returned Ref at once.
C15_Witness ==
    /\ last.op = "add"
    /\ last.hash = ForkId
    /\ MainId(2) \in DOMAIN states_by_hash
    /\ \E k \in DOMAIN states_by_hash : states_by_hash[k].kind = "Collectable"
    /\ ~Pinned(last.hash)

\* C16: the exponential-gap schedule.  The table and the index after gc()
\* are those of the reference procedure: the buckets below the threshold are
\* visited in ascending order with a cursor next_keep starting at 0; a bucket
\* at L >= next_keep is left as it is and sets next_keep = L + (tip - L) div 2;
\* in every other bucket an id without a Ref is removed from the table and
\* from the bucket and an id with a Ref stays, as a Collectable entry; a
\* bucket left empty is removed.
C16_GcIsReferenceProcedure ==
    [][last'.op = "gc" =>
          LET l       == states_by_chain_length
              h       == states_by_hash
              thinned == UNION {l[c] : c \in GapLengths(l)}
              removed == {k \in thinned : ~Pinned(k)}
              h_ref   == [x \in (DOMAIN h) \ removed |->
                             IF x \in thinned THEN Collectable(h[x].ptr) ELSE h[x]]
              l_ref   == [c \in {d \in DOMAIN l : l[d] \ removed # {}} |->
                             IF c \in GapLengths(l) THEN l[c] \ removed ELSE l[c]]
          IN  /\ last'.ret = "Ok"
              /\ states_by_hash' = h_ref
              /\ states_by_chain_length' = l_ref
              /\ last'.gone = removed]_vars

\* A gc has removed entries, kept a bucket strictly between length 0 and the
\* threshold, and left a Collectable entry that a Ref holds.
C16_Witness ==
    /\ last.op = "gc"
    /\ last.gone # {}
    /\ \E c \in KeptLengths(states_by_chain_length) :
          0 < c /\ c < Threshold(states_by_chain_length)
    /\ SolePinned # {}

\* C17: gc() changes neither the table (ids and variants) nor the index when
\* the multiverse is empty or the tip is smaller than SUFFIX_TO_KEEP.
C17_GcNoOpBelowSuffix ==
    [][(last'.op = "gc"
            /\ \/ DOMAIN states_by_chain_length = {}
               \/ Tip(states_by_chain_length) < SUFFIX_TO_KEEP) =>
          /\ last'.ret = "Ok"
          /\ states_by_hash' = states_by_hash
          /\ states_by_chain_length' = states_by_chain_length
          /\ heap' = heap]_vars

\* A gc has run on a table whose tip is at length 10 and that holds, with no
\* Ref held, states at the lengths 0, 1 and 2.
C17_Witness ==
    /\ last.op = "gc"
    /\ DOMAIN states_by_chain_length # {}
    /\ Tip(states_by_chain_length) = 10
    /\ {0, 1, 2} \subseteq DOMAIN states_by_chain_length
    /\ refs = EmptyBag

\* The ids of a sequence of ids.
Range(q) == {q[i] : i \in DOMAIN q}

\* C18: on a fast-path miss that succeeds, get_from_storage(k) calls
\* store.get_block once for each of the d blocks of the parent path from k
\* (inclusive) to the nearest ancestor whose state get_ref returns
\* (exclusive); each of them is installed by add with the state of applying
\* the blocks ancestor-first, nothing else is installed, and the returned Ref
\* is the one of k.
C18_ReplayDistance ==
    [][(last'.op = "get_from_storage"
            /\ ~Obtainable(last'.hash)
            /\ Reconstructible(last'.hash)) =>
          LET k    == last'.hash
              path == ToReplay(k)
          IN  /\ last'.ret = "Ok"
              /\ Len(path) >= 1
              /\ last'.calls = Len(path)
              /\ DOMAIN states_by_hash' = DOMAIN states_by_hash \cup Range(path)
              /\ \A x \in Range(path) :
                    /\ states_by_hash'[x].kind = "Retained"
                    /\ states_by_hash'[x].ptr \in DOMAIN heap'
                    /\ heap'[states_by_hash'[x].ptr] = ChainState(x)
                    /\ block_chain_length(x) \in DOMAIN states_by_chain_length'
                    /\ x \in states_by_chain_length'[block_chain_length(x)]
              /\ \A x \in (DOMAIN states_by_hash) \ Range(path) :
                    states_by_hash'[x] = states_by_hash[x]
              /\ last'.ref = Ref(k, states_by_hash'[k].ptr)]_vars

\* A get_from_storage has rebuilt the fork block from two blocks in a table
\* whose tip is beyond SUFFIX_TO_KEEP, and the caller holds the returned Ref.
C18_Witness ==
    /\ last.op = "get_from_storage"
    /\ last.ret = "Ok"
    /\ last.hash = ForkId
    /\ last.calls = 2
    /\ Tip(states_by_chain_length) > SUFFIX_TO_KEEP
    /\ Pinned(ForkId)

\* C19 as stated: a successful slow-path get_from_storage adds only ids that
\* are absent from the table, so nr_states() grows by the number of blocks
\* it replays.
C19_ReplayAddsFreshIds ==
    [][(last'.op = "get_from_storage"
            /\ ~Obtainable(last'.hash)
            /\ Reconstructible(last'.hash)) =>
          /\ Range(ToReplay(last'.hash)) \cap DOMAIN states_by_hash = {}
          /\ nr_states(states_by_hash')
                = nr_states(states_by_hash) + Len(ToReplay(last'.hash))]_vars

\* C19 as amended: a successful slow-path get_from_storage grows nr_states()
\* by the number of replayed blocks that are absent from the table; a
\* replayed id that the table holds is a Collectable entry without a Ref,
\* and its entry is replaced by a Retained one with a new Arc while the id
\* stays in the bucket it was in.
C19_ReplayAddsAbsentOrDead ==
    [][(last'.op = "get_from_storage"
            /\ ~Obtainable(last'.hash)
            /\ Reconstructible(last'.hash)) =>
          LET path  == Range(ToReplay(last'.hash))
              stale == path \cap DOMAIN states_by_hash
          IN  /\ nr_states(states_by_hash')
                    = nr_states(states_by_hash) + Cardinality(path \ stale)
              /\ \A x \in stale :
                    /\ Dead(x)
                    /\ states_by_hash'[x].kind = "Retained"
                    /\ states_by_hash'[x].ptr # states_by_hash[x].ptr
                    /\ LengthsOf(x, states_by_chain_length')
                          = LengthsOf(x, states_by_chain_length)]_vars

\* A get_from_storage has replayed two blocks towards the main-chain block
\* at length 2, which the table still held as a Collectable entry without a
\* Ref: its Arc is the second allocation for that id.
C19_Witness ==
    /\ last.op = "get_from_storage"
    /\ last.ret = "Ok"
    /\ last.hash = MainId(2)
    /\ last.calls = 2
    /\ states_by_hash[MainId(2)].ptr[2] >= 1

\* The parent path of k in the store ends at the genesis block.
RootedAtGenesis(k) ==
    /\ Lineage(k) # <<>>
    /\ Lineage(k)[Len(Lineage(k))] = GenesisId

\* C20: gc() neither demotes nor removes an entry of the lowest bucket of the
\* index; a genesis state added at length 0 is a Retained entry in every
\* later state; and with it in the table, the ancestor walk of
\* get_from_storage over a parent path that ends at the genesis block finds
\* a seed and does not arrive at the zero hash.
C20_LowestBucketKept ==
    /\ [](GenesisId \in DOMAIN states_by_hash =>
             /\ states_by_hash[GenesisId].kind = "Retained"
             /\ 0 \in DOMAIN states_by_chain_length
             /\ GenesisId \in states_by_chain_length[0])
    /\ [][(GenesisId \in DOMAIN states_by_hash) =>
             /\ GenesisId \in DOMAIN states_by_hash'
             /\ states_by_hash'[GenesisId] = states_by_hash[GenesisId]]_vars
    /\ [][(last'.op = "gc" /\ DOMAIN states_by_chain_length # {}) =>
             LET lowest == Min(DOMAIN states_by_chain_length)
             IN  /\ lowest \in DOMAIN states_by_chain_length'
                 /\ states_by_chain_length'[lowest] = states_by_chain_length[lowest]
                 /\ \A k \in states_by_chain_length[lowest] :
                       /\ k \in DOMAIN states_by_hash'
                       /\ states_by_hash'[k] = states_by_hash[k]]_vars
    /\ [][(last'.op = "get_from_storage"
              /\ GenesisId \in DOMAIN states_by_hash
              /\ RootedAtGenesis(last'.hash)) =>
             /\ Seeds(last'.hash) # {}
             /\ last'.ret # "panic: don't know how to reconstruct initial chain state"]_vars

\* A get_from_storage has rebuilt the fork block from the genesis state,
\* two blocks away, after a gc that had demoted the fork block (its Arc is
\* the second allocation for the id) and removed the block in between.
C20_Witness ==
    /\ last.op = "get_from_storage"
    /\ last.ret = "Ok"
    /\ last.hash = ForkId
    /\ last.calls = 2
    /\ last.ref.state[2] >= 1
    /\ states_by_hash[GenesisId].kind = "Retained"

\* C21: the tip, and with it the threshold tip - SUFFIX_TO_KEEP, never
\* decreases, whatever the call: an index that holds a bucket holds one ever
\* after, and gc() leaves the bucket of the tip as it is.
C21_TipNeverDecreases ==
    /\ [][DOMAIN states_by_chain_length # {} =>
             /\ DOMAIN states_by_chain_length' # {}
             /\ Tip(states_by_chain_length') >= Tip(states_by_chain_length)
             /\ Threshold(states_by_chain_length') >= Threshold(states_by_chain_length)]_vars
    /\ [][(last'.op = "gc" /\ DOMAIN states_by_chain_length # {}) =>
             LET tip == Tip(states_by_chain_length)
             IN  /\ tip \in DOMAIN states_by_chain_length'
                 /\ states_by_chain_length'[tip] = states_by_chain_length[tip]
                 /\ Tip(states_by_chain_length') = tip]_vars

\* A gc has removed two or more entries from a table whose tip, at length
\* MaxLen - 2, nobody holds a Ref to.
C21_Witness ==
    /\ last.op = "gc"
    /\ Cardinality(last.gone) >= 2
    /\ refs = EmptyBag
    /\ Tip(states_by_chain_length) = MaxLen - 2

\* C22: no bucket of the length index is an empty set.
C22_NoEmptyBucket ==
    \A c \in DOMAIN states_by_chain_length : states_by_chain_length[c] # {}

\* A gc has removed the last id of one bucket, and the bucket with it, and
\* one id of two from another bucket, which stays.
C22_Witness ==
    /\ last.op = "gc"
    /\ \E k \in last.gone : block_chain_length(k) \notin DOMAIN states_by_chain_length
    /\ \E k \in last.gone :
          /\ block_chain_length(k) \in DOMAIN states_by_chain_length
          /\ states_by_chain_length[block_chain_length(k)] # {}

\* The lengths below the threshold that the cursor of the schedule keeps.
StrideLengths(l) ==
    IF DOMAIN l = {} \/ Threshold(l) < 0 THEN {}
    ELSE Schedule({c \in DOMAIN l : c < Threshold(l)}, 0, Tip(l), {})

\* C23 as stated: in the fork scenario, with the main chain at length
\* ForkMainLen, gc() leaves the state of the fork's tip as it is if
\* ForkTipLen is a length the cursor of the schedule keeps, and removes it
\* otherwise.
C23_ForkTipFollowsStride ==
    [][(last'.op = "gc"
            /\ ForkTipId \in DOMAIN states_by_hash
            /\ Tip(states_by_chain_length) = ForkMainLen) =>
          IF ForkTipLen \in StrideLengths(states_by_chain_length)
          THEN /\ ForkTipId \in DOMAIN states_by_hash'
               /\ states_by_hash'[ForkTipId] = states_by_hash[ForkTipId]
          ELSE ForkTipId \notin DOMAIN states_by_hash']_vars

\* C23 as amended: in the fork scenario, with the main chain at length
\* ForkMainLen, ForkTipLen is not below the threshold and gc() leaves the
\* state of the fork's tip Retained, wherever the cursor of the schedule
\* stands; once the tip of the main chain is more than SUFFIX_TO_KEEP beyond
\* ForkTipLen, gc() leaves the fork's tip as it is if the cursor keeps
\* ForkTipLen and removes it otherwise.  A gc() treats the ids of a bucket
\* alike, whichever fork they are of: in a bucket it keeps every entry is
\* left as it is, in any other every id without a Ref is removed and every
\* id with a Ref is left as a Collectable entry.
C23_ForkTipKeptInSuffix ==
    /\ [][(last'.op = "gc"
              /\ ForkTipId \in DOMAIN states_by_hash
              /\ Tip(states_by_chain_length) = ForkMainLen) =>
             /\ ForkTipLen >= Threshold(states_by_chain_length)
             /\ ForkTipLen \notin StrideLengths(states_by_chain_length)
             /\ ForkTipId \in DOMAIN states_by_hash'
             /\ states_by_hash'[ForkTipId] = states_by_hash[ForkTipId]
             /\ states_by_hash'[ForkTipId].kind = "Retained"
             /\ ForkTipId \in states_by_chain_length'[ForkTipLen]]_vars
    /\ [][(last'.op = "gc"
              /\ ForkTipId \in DOMAIN states_by_hash
              /\ ForkTipLen < Threshold(states_by_chain_length)) =>
             IF ForkTipLen \in StrideLengths(states_by_chain_length)
             THEN /\ ForkTipId \in DOMAIN states_by_hash'
                  /\ states_by_hash'[ForkTipId] = states_by_hash[ForkTipId]
             ELSE /\ ForkTipId \notin DOMAIN states_by_hash'
                  /\ LengthsOf(ForkTipId, states_by_chain_length') = {}]_vars
    /\ [][last'.op = "gc" =>
             \A c \in DOMAIN states_by_chain_length :
                 IF c \in KeptLengths(states_by_chain_length)
                 THEN /\ c \in DOMAIN states_by_chain_length'
                      /\ states_by_chain_length'[c] = states_by_chain_length[c]
                      /\ \A k \in states_by_chain_length[c] :
                            /\ k \in DOMAIN states_by_hash'
                            /\ states_by_hash'[k] = states_by_hash[k]
                 ELSE \A k \in states_by_chain_length[c] :
                        IF Pinned(k)
                        THEN /\ k \in DOMAIN states_by_hash'
                             /\ states_by_hash'[k] = Collectable(states_by_hash[k].ptr)
                        ELSE k \notin DOMAIN states_by_hash']_vars

\* A gc has removed the fork's tip together with the main-chain block of
\* its length, both of which the gc of the fork scenario had left Retained.
C23_Witness ==
    /\ last.op = "gc"
    /\ ForkTipId \in last.gone
    /\ MainId(ForkTipLen) \in last.gone
    /\ Tip(states_by_chain_length) > ForkMainLen

====
